---- MODULE Spec2Model ----
(***************************************************************************)
(* Order processing service of exam.py: process_orders fetches a user's    *)
(* orders, runs the per-order pipeline (type-specific stage, priority      *)
(* assignment, status persistence) on each, and returns a boolean.         *)
(*                                                                         *)
(* The collaborators (DatabaseService, APIClient, the file system) are     *)
(* the environment: each of their calls either returns or raises, and the  *)
(* outcome is chosen nondeterministically the first time process_orders    *)
(* runs and replayed when it runs again on the same batch.                 *)
(***************************************************************************)
EXTENDS Integers, Sequences, FiniteSets, TLC

VARIABLES
    pc,          \* position in process_orders: "start", "loop", "done"
    run,         \* 1 during the first call of process_orders, 2 during the second
    fetched,     \* outcome of get_orders_by_user (fixed for both calls)
    orders,      \* the Order objects of the batch, in fetch order
    env,         \* outcomes of the collaborators' calls, per visited order
    i,           \* index of the next order the for loop visits
    result,      \* return value of process_orders: "none" until it returns
    updateCalls, \* arguments of the update_order_status calls of this call
    apiCalls,    \* arguments of the call_api calls of this call
    exports,     \* files opened for writing by this call, with their rows
    prevOrders,  \* the orders as the first call left them
    prevCalls    \* updateCalls of the first call

vars == <<pc, run, fetched, orders, env, i, result, updateCalls, apiCalls,
          exports, prevOrders, prevCalls>>

\* Largest batch get_orders_by_user returns in the model.
MaxOrders == 2

\* ------------------------------------------------------------------------
\* Data

\* Order.__init__
Order(id, type, amount, flag) ==
    [id |-> id, type |-> type, amount |-> amount, flag |-> flag,
     status |-> "new", priority |-> "low"]

\* Type, amount and flag of the orders a batch is built from: each type, with
\* amounts on both sides of the thresholds 100 (type B), 150 (export note)
\* and 200 (priority).
OrderPool ==
    { [type |-> "A", amount |-> 150, flag |-> FALSE],
      [type |-> "A", amount |-> 200, flag |-> FALSE],
      [type |-> "A", amount |-> 250, flag |-> TRUE],
      [type |-> "B", amount |-> 50,  flag |-> FALSE],
      [type |-> "B", amount |-> 100, flag |-> FALSE],
      [type |-> "B", amount |-> 100, flag |-> TRUE],
      [type |-> "B", amount |-> 250, flag |-> FALSE],
      [type |-> "C", amount |-> 200, flag |-> TRUE],
      [type |-> "C", amount |-> 250, flag |-> FALSE],
      [type |-> "X", amount |-> 50,  flag |-> FALSE],
      [type |-> "X", amount |-> 250, flag |-> TRUE] }

\* The lists get_orders_by_user can return: freshly constructed orders whose
\* id is their position in the list.
Batches ==
    UNION { { [k \in 1..n |-> Order(k, f[k].type, f[k].amount, f[k].flag)] :
                f \in [1..n -> OrderPool] } : n \in 0..MaxOrders }

\* Outcomes of get_orders_by_user: a list, a DatabaseException, or any other
\* exception.
FetchOutcomes ==
    { [exc |-> e, batch |-> <<>>] : e \in {"DatabaseException", "Error"} }
    \cup { [exc |-> "", batch |-> b] : b \in Batches }

\* APIResponse(status, data); data is <<>> for None and <<d>> for a number d.
APIResponse(status, data) == [exc |-> "", status |-> status, data |-> data]

\* Outcomes of call_api: a response, or an APIException.
ApiOutcomes ==
    { [exc |-> "APIException", status |-> "", data |-> <<>>],
      APIResponse("error", <<>>),
      APIResponse("success", <<49>>),
      APIResponse("success", <<50>>),
      APIResponse("success", <<>>) }

\* Outcomes of open/csv.writer in the with block: success, an IOError raised
\* by open, an IOError raised while writing the data row, or an error that is
\* not an IOError raised while writing the data row.
ExportOutcomes == {"ok", "IOError_open", "IOError_write", "Error"}

\* Outcomes of update_order_status: it returns, raises DatabaseException, or
\* raises any other exception.
DbOutcomes == {"ok", "DatabaseException", "Error"}

NoApi == [exc |-> "", status |-> "", data |-> <<>>]

\* Outcomes of the collaborator calls the pipeline makes for an order; a call
\* the order's type never makes has the single outcome "not called".
EnvFor(order) ==
    { [export |-> x, api |-> a, db |-> d] :
        x \in (IF order.type = "A" THEN ExportOutcomes ELSE {"none"}),
        a \in (IF order.type = "B" THEN ApiOutcomes ELSE {NoApi}),
        d \in DbOutcomes }

\* ------------------------------------------------------------------------
\* The export file (_process_type_a_order, lines 84-94)

Header == <<"ID", "Type", "Amount", "Flag", "Status", "Priority">>

\* str(order.flag).lower()
LowerBool(flag) == IF flag THEN "true" ELSE "false"

DataRow(order) ==
    <<order.id, order.type, order.amount, LowerBool(order.flag),
      order.status, order.priority>>

NoteRow == <<"", "", "", "", "Note", "High value order">>

\* ExportRows with the note threshold off by one (amount >= 150).
ExportRowsGe150(order) ==
    <<Header, DataRow(order)>>
        \o (IF order.amount >= 150 THEN <<NoteRow>> ELSE <<>>)

ExportRows(order) ==
    <<Header, DataRow(order)>>
        \o (IF order.amount > 150 THEN <<NoteRow>> ELSE <<>>)

\* ------------------------------------------------------------------------
\* The stages of the per-order pipeline.  Each returns the order as it
\* leaves it and the exception that escapes it ("" when none does).

\* ProcessTypeAOrder with the data row written after the status assignment.
ProcessTypeAOrderLate(order, export) ==
    CASE export = "ok" ->
            [order |-> [order EXCEPT !.status = "exported"],
             written |-> <<[id |-> order.id,
                            rows |-> ExportRows([order EXCEPT
                                                   !.status = "exported"])]>>,
             exc |-> ""]
      [] export = "IOError_open" ->
            [order |-> [order EXCEPT !.status = "export_failed"],
             written |-> <<>>,
             exc |-> ""]
      [] export = "IOError_write" ->
            [order |-> [order EXCEPT !.status = "export_failed"],
             written |-> <<[id |-> order.id, rows |-> <<Header>>]>>,
             exc |-> ""]
      [] OTHER ->
            [order |-> order,
             written |-> <<[id |-> order.id, rows |-> <<Header>>]>>,
             exc |-> "Error"]

ProcessTypeAOrder(order, export) ==
    CASE export = "ok" ->
            [order |-> [order EXCEPT !.status = "exported"],
             written |-> <<[id |-> order.id, rows |-> ExportRows(order)]>>,
             exc |-> ""]
      [] export = "IOError_open" ->
            [order |-> [order EXCEPT !.status = "export_failed"],
             written |-> <<>>,
             exc |-> ""]
      [] export = "IOError_write" ->
            [order |-> [order EXCEPT !.status = "export_failed"],
             written |-> <<[id |-> order.id, rows |-> <<Header>>]>>,
             exc |-> ""]
      [] OTHER ->
            [order |-> order,
             written |-> <<[id |-> order.id, rows |-> <<Header>>]>>,
             exc |-> "Error"]

\* ProcessTypeBOrder with rule 1 off by one (amount <= 100).
ProcessTypeBOrderLe100(order, api) ==
    IF api.exc = "APIException"
    THEN [order |-> [order EXCEPT !.status = "api_failure"], exc |-> ""]
    ELSE IF api.status = "success"
    THEN IF api.data = <<>>
         THEN [order |-> order, exc |-> "TypeError"]
         ELSE IF api.data[1] >= 50 /\ order.amount <= 100
         THEN [order |-> [order EXCEPT !.status = "processed"], exc |-> ""]
         ELSE IF api.data[1] < 50 \/ order.flag
         THEN [order |-> [order EXCEPT !.status = "pending"], exc |-> ""]
         ELSE [order |-> [order EXCEPT !.status = "error"], exc |-> ""]
    ELSE [order |-> [order EXCEPT !.status = "api_error"], exc |-> ""]

ProcessTypeBOrder(order, api) ==
    IF api.exc = "APIException"
    THEN [order |-> [order EXCEPT !.status = "api_failure"], exc |-> ""]
    ELSE IF api.status = "success"
    THEN IF api.data = <<>>
         THEN [order |-> order, exc |-> "TypeError"]
         ELSE IF api.data[1] >= 50 /\ order.amount < 100
         THEN [order |-> [order EXCEPT !.status = "processed"], exc |-> ""]
         ELSE IF api.data[1] < 50 \/ order.flag
         THEN [order |-> [order EXCEPT !.status = "pending"], exc |-> ""]
         ELSE [order |-> [order EXCEPT !.status = "error"], exc |-> ""]
    ELSE [order |-> [order EXCEPT !.status = "api_error"], exc |-> ""]

ProcessTypeCOrder(order) ==
    IF order.flag
    THEN [order EXCEPT !.status = "completed"]
    ELSE [order EXCEPT !.status = "in_progress"]

\* SetOrderPriority with the threshold off by one (amount >= 200).
SetOrderPriorityGe200(order) ==
    IF order.amount >= 200
    THEN [order EXCEPT !.priority = "high"]
    ELSE [order EXCEPT !.priority = "low"]

SetOrderPriority(order) ==
    IF order.amount > 200
    THEN [order EXCEPT !.priority = "high"]
    ELSE [order EXCEPT !.priority = "low"]

\* UpdateOrderStatus without the except clause: DatabaseException escapes.
UpdateOrderStatusUncaught(order, db) ==
    [order |-> order,
     calls |-> << <<order.id, order.status, order.priority>> >>,
     exc |-> IF db = "ok" THEN "" ELSE db]

\* UpdateOrderStatus whose except clause swallows the DatabaseException and
\* leaves the status alone.
UpdateOrderStatusKeep(order, db) ==
    [order |-> order,
     calls |-> << <<order.id, order.status, order.priority>> >>,
     exc |-> IF db = "Error" THEN "Error" ELSE ""]

UpdateOrderStatus(order, db) ==
    [order |-> IF db = "DatabaseException"
               THEN [order EXCEPT !.status = "db_error"]
               ELSE order,
     calls |-> << <<order.id, order.status, order.priority>> >>,
     exc |-> IF db = "Error" THEN "Error" ELSE ""]

\* Dispatch whose else branch leaves an unrecognised order untouched.
DispatchPass(order, e) ==
    CASE order.type = "A" ->
            LET a == ProcessTypeAOrder(order, e.export)
            IN  [order |-> a.order, written |-> a.written, api |-> <<>>,
                 exc |-> a.exc]
      [] order.type = "B" ->
            LET b == ProcessTypeBOrder(order, e.api)
            IN  [order |-> b.order, written |-> <<>>, api |-> <<order.id>>,
                 exc |-> b.exc]
      [] order.type = "C" ->
            [order |-> ProcessTypeCOrder(order), written |-> <<>>,
             api |-> <<>>, exc |-> ""]
      [] OTHER ->
            [order |-> order, written |-> <<>>, api |-> <<>>, exc |-> ""]

\* The type dispatch of _process_order (lines 67-74).
Dispatch(order, e) ==
    CASE order.type = "A" ->
            LET a == ProcessTypeAOrder(order, e.export)
            IN  [order |-> a.order, written |-> a.written, api |-> <<>>,
                 exc |-> a.exc]
      [] order.type = "B" ->
            LET b == ProcessTypeBOrder(order, e.api)
            IN  [order |-> b.order, written |-> <<>>, api |-> <<order.id>>,
                 exc |-> b.exc]
      [] order.type = "C" ->
            [order |-> ProcessTypeCOrder(order), written |-> <<>>,
             api |-> <<>>, exc |-> ""]
      [] OTHER ->
            [order |-> [order EXCEPT !.status = "unknown_type"],
             written |-> <<>>, api |-> <<>>, exc |-> ""]

\* ProcessOrder that returns at once for an order whose status is not "new".
ProcessOrderSkipDone(order, e) ==
    IF order.status # "new"
    THEN [order |-> order, written |-> <<>>, api |-> <<>>, calls |-> <<>>,
          exc |-> ""]
    ELSE LET s == Dispatch(order, e)
         IN  IF s.exc # ""
             THEN [order |-> s.order, written |-> s.written, api |-> s.api,
                   calls |-> <<>>, exc |-> s.exc]
             ELSE LET u == UpdateOrderStatus(SetOrderPriority(s.order), e.db)
                  IN  [order |-> u.order, written |-> s.written,
                       api |-> s.api, calls |-> u.calls, exc |-> u.exc]

\* _process_order: dispatch, then priority, then persistence; an exception
\* escaping a stage skips the stages after it.
ProcessOrder(order, e) ==
    LET s == Dispatch(order, e)
    IN  IF s.exc # ""
        THEN [order |-> s.order, written |-> s.written, api |-> s.api,
              calls |-> <<>>, exc |-> s.exc]
        ELSE LET u == UpdateOrderStatus(SetOrderPriority(s.order), e.db)
             IN  [order |-> u.order, written |-> s.written, api |-> s.api,
                  calls |-> u.calls, exc |-> u.exc]

\* ------------------------------------------------------------------------
\* process_orders

Init ==
    /\ pc = "start"
    /\ run = 1
    /\ fetched = [exc |-> "", batch |-> <<>>]
    /\ orders = <<>>
    /\ env = <<>>
    /\ i = 1
    /\ result = "none"
    /\ updateCalls = <<>>
    /\ apiCalls = <<>>
    /\ exports = <<>>
    /\ prevOrders = <<>>
    /\ prevCalls = <<>>

\* GetOrders without the empty check of line 56.
GetOrdersNoEmptyCheck ==
    /\ pc = "start"
    /\ \E f \in (IF run = 1 THEN FetchOutcomes ELSE {fetched}) :
          /\ fetched' = f
          /\ IF f.exc # ""
             THEN /\ pc' = "done"
                  /\ result' = FALSE
                  /\ UNCHANGED orders
             ELSE /\ orders' = IF run = 1 THEN f.batch ELSE orders
                  /\ pc' = "loop"
                  /\ UNCHANGED result
    /\ i' = 1
    /\ UNCHANGED <<run, env, updateCalls, apiCalls, exports, prevOrders,
                   prevCalls>>

\* Lines 55-57 and 63-64: the fetch, the empty check, and the handler of an
\* exception raised by the fetch.
GetOrders ==
    /\ pc = "start"
    /\ \E f \in (IF run = 1 THEN FetchOutcomes ELSE {fetched}) :
          /\ fetched' = f
          /\ IF f.exc # ""
             THEN /\ pc' = "done"
                  /\ result' = FALSE
                  /\ UNCHANGED orders
             ELSE /\ orders' = IF run = 1 THEN f.batch ELSE orders
                  /\ IF Len(f.batch) = 0
                     THEN pc' = "done" /\ result' = FALSE
                     ELSE pc' = "loop" /\ UNCHANGED result
    /\ i' = 1
    /\ UNCHANGED <<run, env, updateCalls, apiCalls, exports, prevOrders,
                   prevCalls>>

\* Lines 59-60 and 63-64: one iteration of the for loop, and the handler of
\* an exception escaping _process_order.
ProcessNext ==
    /\ pc = "loop"
    /\ i <= Len(orders)
    /\ \E e \in (IF run = 1 THEN EnvFor(orders[i]) ELSE {env[i]}) :
          LET r == ProcessOrder(orders[i], e)
          IN  /\ env' = IF run = 1 THEN Append(env, e) ELSE env
              /\ orders' = [orders EXCEPT ![i] = r.order]
              /\ exports' = exports \o r.written
              /\ apiCalls' = apiCalls \o r.api
              /\ updateCalls' = updateCalls \o r.calls
              /\ IF r.exc # ""
                 THEN pc' = "done" /\ result' = FALSE /\ UNCHANGED i
                 ELSE i' = i + 1 /\ UNCHANGED <<pc, result>>
    /\ UNCHANGED <<run, fetched, prevOrders, prevCalls>>

\* Line 62: the loop has visited every order.
ReturnTrue ==
    /\ pc = "loop"
    /\ i > Len(orders)
    /\ pc' = "done"
    /\ result' = TRUE
    /\ UNCHANGED <<run, fetched, orders, env, i, updateCalls, apiCalls,
                   exports, prevOrders, prevCalls>>

\* The caller invokes process_orders a second time for the same user: the
\* repository returns the same Order objects, as the first call left them.
CallAgain ==
    /\ pc = "done"
    /\ run = 1
    /\ run' = 2
    /\ pc' = "start"
    /\ result' = "none"
    /\ i' = 1
    /\ prevOrders' = orders
    /\ prevCalls' = updateCalls
    /\ updateCalls' = <<>>
    /\ apiCalls' = <<>>
    /\ exports' = <<>>
    /\ UNCHANGED <<fetched, orders, env>>

Next == GetOrders \/ ProcessNext \/ ReturnTrue

Spec == Init /\ [][Next]_vars

NextRerun == Next \/ CallAgain

SpecRerun == Init /\ [][NextRerun]_vars

\* ------------------------------------------------------------------------
\* Properties

\* The outcomes of the collaborators for one order are among the classified
\* kinds: no error other than IOError, APIException or DatabaseException, and
\* no "success" response without a numeric payload.
Classified(e) ==
    /\ e.export # "Error"
    /\ e.db # "Error"
    /\ ~(e.api.status = "success" /\ e.api.data = <<>>)

AllClassified == \A k \in 1..Len(env) : Classified(env[k])

\* The update_order_status calls made for the order with this id.
CallsFor(id) == { j \in 1..Len(updateCalls) : updateCalls[j][1] = id }

\* The files written for the order with this id.
ExportsFor(id) == { j \in 1..Len(exports) : exports[j].id = id }

PriorityOf(amount) == IF amount > 200 THEN "high" ELSE "low"

\* C1: when the fetch returns a non-empty list and every per-order outcome is
\* an export I/O error, a remote-call error, a non-"success" response, a
\* persistence error or a success, process_orders returns true, having
\* attempted update_order_status exactly once per order, in fetch order; a
\* failure on one order never stops the pipeline of a later order.
C1_ClassifiedErrorsContained ==
    (pc = "done" /\ fetched.exc = "" /\ Len(fetched.batch) > 0 /\ AllClassified)
        => /\ result = TRUE
           /\ Len(env) = Len(orders)
           /\ Len(updateCalls) = Len(orders)
           /\ \A k \in 1..Len(orders) :
                 /\ updateCalls[k][1] = orders[k].id
                 /\ orders[k].status # "new"
                 /\ updateCalls[k][3] = PriorityOf(orders[k].amount)
                 /\ orders[k].type = "B" => Cardinality({j \in 1..Len(apiCalls) :
                                                apiCalls[j] = orders[k].id}) = 1

C1_Witness ==
    /\ pc = "done"
    /\ result = TRUE
    /\ Len(orders) = 2
    /\ orders[1].type = "A"
    /\ env[1].export = "IOError_open"
    /\ env[1].db = "DatabaseException"
    /\ orders[2].type = "B"
    /\ env[2].api.exc = "APIException"
    /\ updateCalls[2] = <<2, "api_failure", "high">>

\* C2: when get_orders_by_user returns an empty list or raises any exception,
\* process_orders returns false without calling update_order_status or
\* call_api and without writing an export file.
C2_FetchFailureOrEmptyNoEffects ==
    (pc = "done" /\ (fetched.exc # "" \/ Len(fetched.batch) = 0))
        => /\ result = FALSE
           /\ updateCalls = <<>>
           /\ apiCalls = <<>>
           /\ exports = <<>>

C2_Witness ==
    /\ pc = "done"
    /\ fetched.exc = ""
    /\ Len(fetched.batch) = 0
    /\ result = FALSE

\* C3: the status the type-B stage hands to persistence is decided, in this
\* order, by: remote-call error -> api_failure; response other than
\* "success" -> api_error; data >= 50 and amount < 100 -> processed; data < 50
\* or flag -> pending; else error.  So error arises exactly for data >= 50,
\* amount >= 100, flag false, and data >= 50, amount >= 100, flag true gives
\* pending.
C3_TypeBRules ==
    \A j \in 1..Len(updateCalls) :
        LET o  == orders[updateCalls[j][1]]
            a  == env[updateCalls[j][1]].api
            st == updateCalls[j][2]
        IN  o.type = "B" =>
              /\ a.exc = "APIException" => st = "api_failure"
              /\ (a.exc = "" /\ a.status # "success") => st = "api_error"
              /\ (a.exc = "" /\ a.status = "success" /\ a.data # <<>>) =>
                    LET d == a.data[1]
                    IN  /\ st \in {"processed", "pending", "error"}
                        /\ st = "processed" <=> (d >= 50 /\ o.amount < 100)
                        /\ st = "error" <=>
                              (d >= 50 /\ o.amount >= 100 /\ ~o.flag)
                        /\ (d >= 50 /\ o.amount >= 100 /\ o.flag)
                              => st = "pending"
                        /\ d < 50 => st = "pending"

C3_Witness ==
    \E j \in 1..Len(updateCalls) :
        LET o == orders[updateCalls[j][1]]
            a == env[updateCalls[j][1]].api
        IN  /\ o.type = "B"
            /\ a.status = "success"
            /\ a.data = <<50>>
            /\ o.amount = 100
            /\ o.flag
            /\ updateCalls[j][2] = "pending"

\* C4: when update_order_status raises a persistence error for an order, the
\* order ends with status db_error whatever its type and whatever status the
\* type-specific stage computed; its priority stays the one assigned, and
\* that call is the only repository call made for the order.
C4_DbErrorClobbersStatus ==
    \A k \in 1..Len(env) :
        (env[k].db = "DatabaseException" /\ CallsFor(k) # {})
            => /\ orders[k].status = "db_error"
               /\ orders[k].priority = PriorityOf(orders[k].amount)
               /\ Cardinality(CallsFor(k)) = 1
               /\ \A j \in CallsFor(k) :
                     /\ updateCalls[j][3] = orders[k].priority
                     /\ updateCalls[j][2] \in
                           {"exported", "export_failed", "processed",
                            "pending", "error", "api_error", "api_failure",
                            "completed", "in_progress", "unknown_type"}

C4_Witness ==
    /\ pc = "done"
    /\ Len(orders) = 2
    /\ Len(updateCalls) = 2
    /\ env[1].db = "DatabaseException"
    /\ updateCalls[1] = <<1, "exported", "high">>
    /\ orders[1].status = "db_error"
    /\ orders[1].priority = "high"

\* C5: every order whose type-specific stage completed, of any type and with
\* any stage outcome, has priority high exactly when amount > 200 (amount 200
\* gives low), and that priority is the one passed to update_order_status.
C5_PriorityRule ==
    /\ \A k \in 1..Len(orders) :
          (k < i \/ CallsFor(orders[k].id) # {})
              => /\ orders[k].priority = "high" <=> orders[k].amount > 200
                 /\ orders[k].priority = "low" <=> orders[k].amount <= 200
    /\ \A j \in 1..Len(updateCalls) :
          updateCalls[j][3] = orders[updateCalls[j][1]].priority

C5_Witness ==
    /\ pc = "done"
    /\ Len(orders) = 2
    /\ orders[1].amount = 200
    /\ orders[1].status = "export_failed"
    /\ updateCalls[1][3] = "low"
    /\ orders[2].amount = 250
    /\ orders[2].status = "api_failure"
    /\ updateCalls[2][3] = "high"

\* C6: for a type-A order whose file write succeeds, the file holds the header
\* row, then one data row, then the note row exactly when amount > 150, and
\* the stage sets status exported; when opening or writing fails with an I/O
\* error the stage sets export_failed and process_orders still returns true.
C6_ExportFile ==
    \A k \in 1..Len(env) :
        orders[k].type = "A" =>
          /\ env[k].export = "ok" =>
                /\ Cardinality(ExportsFor(k)) = 1
                /\ \A f \in ExportsFor(k) :
                      LET rows == exports[f].rows
                      IN  /\ rows[1] = <<"ID", "Type", "Amount", "Flag",
                                         "Status", "Priority">>
                          /\ Len(rows) = IF orders[k].amount > 150 THEN 3 ELSE 2
                          /\ rows[2][1] = orders[k].id
                          /\ rows[2][2] = "A"
                          /\ rows[2][3] = orders[k].amount
                          /\ rows[2][4] = IF orders[k].flag THEN "true" ELSE "false"
                          /\ orders[k].amount > 150 =>
                                rows[3] = <<"", "", "", "", "Note",
                                            "High value order">>
                /\ \A j \in CallsFor(k) : updateCalls[j][2] = "exported"
                /\ CallsFor(k) # {}
          /\ env[k].export \in {"IOError_open", "IOError_write"} =>
                /\ \A j \in CallsFor(k) : updateCalls[j][2] = "export_failed"
                /\ CallsFor(k) # {}
                /\ (pc = "done" /\ AllClassified) => result = TRUE

C6_Witness ==
    /\ pc = "done"
    /\ result = TRUE
    /\ Len(orders) = 2
    /\ orders[1].type = "A" /\ orders[1].amount = 150
    /\ env[1].export = "ok"
    /\ Len(exports[1].rows) = 2
    /\ orders[2].type = "A" /\ orders[2].amount = 200
    /\ env[2].export = "IOError_write"
    /\ updateCalls[2][2] = "export_failed"

\* C7: after process_orders returns true, no order is left at status new:
\* each has db_error if its persistence failed, and otherwise a status of
\* its type (A: exported, export_failed; B: processed, pending, error,
\* api_error, api_failure; C: completed if flag else in_progress; other:
\* unknown_type); its priority is high or low.
C7_FinalStatusPermitted ==
    (pc = "done" /\ result = TRUE) =>
        \A k \in 1..Len(orders) :
            LET o == orders[k]
            IN  /\ o.status # "new"
                /\ o.priority \in {"high", "low"}
                /\ o.status = "db_error" <=> env[k].db = "DatabaseException"
                /\ o.status # "db_error" =>
                      CASE o.type = "A" ->
                              o.status \in {"exported", "export_failed"}
                        [] o.type = "B" ->
                              o.status \in {"processed", "pending", "error",
                                            "api_error", "api_failure"}
                        [] o.type = "C" ->
                              o.status = IF o.flag THEN "completed"
                                         ELSE "in_progress"
                        [] OTHER -> o.status = "unknown_type"

C7_Witness ==
    /\ pc = "done"
    /\ result = TRUE
    /\ Len(orders) = 2
    /\ orders[1].type = "X" /\ orders[1].status = "unknown_type"
    /\ orders[2].type = "C" /\ orders[2].status = "db_error"

\* C8: a second call of process_orders on the same orders, with the
\* collaborators behaving as in the first, leaves every order with the status
\* and priority the first call left and makes the same update_order_status
\* calls with the same arguments.
C8_Idempotent ==
    (run = 2 /\ pc = "done") =>
        /\ Len(orders) = Len(prevOrders)
        /\ \A k \in 1..Len(orders) :
              /\ orders[k].status = prevOrders[k].status
              /\ orders[k].priority = prevOrders[k].priority
        /\ updateCalls = prevCalls

C8_Witness ==
    /\ run = 2
    /\ pc = "done"
    /\ result = TRUE
    /\ Len(orders) = 2
    /\ orders[1].status = "exported" /\ orders[1].priority = "high"
    /\ orders[2].status = "db_error"
    /\ Len(updateCalls) = 2
    /\ updateCalls[2][2] = "pending"

\* C9: the data row of a type-A export is written before the stage sets
\* exported and before priority assignment: its Status and Priority fields
\* are the values the order held on entry to the pipeline, new and low for an
\* order fetched in its initial state.
C9_RowEntryValues ==
    [][(Len(exports') > Len(exports)
            /\ Len(exports'[Len(exports')].rows) >= 2)
        => LET row == exports'[Len(exports')].rows[2]
           IN  /\ row[5] = orders[i].status
               /\ row[6] = orders[i].priority
               /\ run = 1 => (row[5] = "new" /\ row[6] = "low")]_vars

C9_Witness ==
    /\ run = 1
    /\ pc = "done"
    /\ Len(exports) = 1
    /\ Len(exports[1].rows) = 3
    /\ exports[1].rows[2][5] = "new"
    /\ exports[1].rows[2][6] = "low"
    /\ orders[exports[1].id].status = "exported"
    /\ orders[exports[1].id].priority = "high"

\* C10: whenever process_orders returns false, no update_order_status call
\* has been made and no export file has been written for any order of the
\* batch.
C10_FalseMeansNothingDone ==
    (pc = "done" /\ result = FALSE) => (updateCalls = <<>> /\ exports = <<>>)

====
